---- MODULE Spec2Model ----
(***************************************************************************)
(* State-machine model of the automation framework's interaction/wait      *)
(* layer (SeleniumHelper), its logging facade (AutomationLogger), its      *)
(* debug capture subsystem (DebugHelper, ScreenshotManager) and its driver *)
(* factory (DriverManager).                                                *)
(*                                                                         *)
(* Spec follows the calls on a constructed helper, SpecLive adds the       *)
(* fairness of the poll loop, SpecCapture follows DebugHelper with the     *)
(* files of earlier captures on disk, SpecStartup the start of the process *)
(* and get_driver, SpecText the XPath of find_by_visible_text.             *)
(*                                                                         *)
(* Time is counted in poll intervals of WebDriverWait.  Strings that reach *)
(* a file name are sequences of tokens: a user-supplied string is a        *)
(* sequence of one-character strings, a literal of the source is one       *)
(* token.                                                                  *)
(***************************************************************************)
EXTENDS Integers, Sequences, FiniteSets, TLC

VARIABLES
    pc,               \* position of the call in progress ("idle" between calls)
    call,             \* arguments of the call in progress / last finished
    elapsed,          \* poll intervals slept by the wait in progress
    events,           \* what the call did so far, in order
    result,           \* what the last call gave its caller
    cap,              \* the debug capture in progress / last finished
    artifacts,        \* the artifacts dict being built by capture_all
    files,            \* names of the files written since the call began
    disk,             \* paths of the files the last capture left on disk
    now,              \* wall clock, in seconds
    default_timeout,  \* SeleniumHelper.default_timeout
    fs,               \* the directories and files of the logs tree that exist
    handlers,         \* logging.getLogger("Automation").handlers is not empty
    settings,         \* the toggles of config.settings.Settings
    options           \* the Chrome Options get_driver is assembling

\* what the process start-up works on
startup == <<fs, handlers, settings, options>>

vars == <<pc, call, elapsed, events, result, cap, artifacts, files, disk, now,
          default_timeout, startup>>

(***************************************************************************)
(* Bounds                                                                  *)
(***************************************************************************)
MaxTimeout == 1
MaxTime == 1
MaxContainers == 2

\* Python's None where an integer argument is expected
None == -1

(***************************************************************************)
(* Inputs                                                                  *)
(***************************************************************************)
\* user-supplied strings (test ids, labels, texts, XPaths): an XPath and a
\* text with a space
UserStrings == { <<"/", "/", "a">>, <<"a", " ", "b">> }
WaitTimes == {None} \cup (0..MaxTimeout)
ConditionNames == {"clickable", "visible", "present", "enabled"}

(***************************************************************************)
(* The document                                                            *)
(***************************************************************************)
\* absent: not in the DOM; hidden: in the DOM, not displayed;
\* disabled: displayed, not enabled; ready: displayed and enabled
ElementStates == {"absent", "hidden", "disabled", "ready"}
DocStates == [base: {"absent", "ready"}, target: ElementStates,
              text: BOOLEAN, url: BOOLEAN]

\* EC.presence_of_element_located
presence_of_element_located(e) == e # "absent"
\* EC.visibility_of_element_located
visibility_of_element_located(e) == e \in {"disabled", "ready"}
\* EC.element_to_be_clickable
element_to_be_clickable(e) == e = "ready"
\* EC.text_to_be_present_in_element
text_to_be_present_in_element(d) == d.target # "absent" /\ d.text
\* EC.url_contains
url_contains(d) == d.url

(***************************************************************************)
(* _get_expected_condition_func                                            *)
(***************************************************************************)
\* a resolver that knows a fourth name
condition_map_open == {"clickable", "visible", "present", "enabled"}

condition_map == {"clickable", "visible", "present"}

condition_func(condition, e) ==
    CASE condition = "clickable" -> element_to_be_clickable(e)
      [] condition = "visible" -> visibility_of_element_located(e)
      [] condition = "present" -> presence_of_element_located(e)
      [] OTHER -> FALSE

(***************************************************************************)
(* Results                                                                 *)
(***************************************************************************)
\* what a call gives its caller: a returned value or a raised exception; an
\* ElementNotFoundError carries locator and timeout, a chained exception its cause
NoResult == [kind |-> "none", val |-> "None", exc |-> "None", locator |-> <<>>,
             timeout |-> None, cause |-> "None", details |-> <<>>,
             links |-> <<>>]
Return(v) == [NoResult EXCEPT !.kind = "return", !.val = v]
Raise(e, c) == [NoResult EXCEPT !.kind = "raise", !.exc = e, !.cause = c]
\* a returned list of link targets
ReturnList(l) == [Return("list") EXCEPT !.links = l]

NoCall == [op |-> "None", cond |-> "None", wait_time |-> None, timeout |-> None,
           s |-> <<>>, phase |-> "None", flag |-> FALSE, file |-> "None",
           direction |-> "None", behavior |-> "None", block |-> "None",
           index |-> None, wait |-> "Idle", given |-> TRUE, seen |-> "None",
           by |-> "None", doc |-> <<>>, script |-> "None", again |-> FALSE,
           tag |-> "*"]

(***************************************************************************)
(* File names (ScreenshotManager, DebugHelper)                             *)
(***************************************************************************)
\* datetime.now().strftime("%Y%m%d_%H%M%S"): one token per second of the clock
strftime(t) == ToString(t)

\* name.replace(" ", "_").replace("/", "_").replace("\\", "_"), then every
\* character of '<>:"/\\|?*' removed
Replaced == {" ", "/", "\\"}
Removed == {"<", ">", ":", "\"", "/", "\\", "|", "?", "*"}

_sanitize_filename(name) ==
    LET sanitized == [i \in DOMAIN name |->
                        IF name[i] \in Replaced THEN "_" ELSE name[i]]
    IN SelectSeq(sanitized, LAMBDA ch : ch \notin Removed)

\* ScreenshotManager.capture_on_failure, prefix and suffix empty:
\* "_".join([sanitized_context, sanitized_error_type, timestamp]) + ".png"
ScreenshotFilename(context, error_type, timestamp) ==
    _sanitize_filename(context) \o <<"_">> \o _sanitize_filename(error_type)
        \o <<"_", timestamp, ".png">>

\* DebugHelper: f"{context}_page_source_{timestamp}.html" and its siblings
ArtifactFilename(context, kind, timestamp, extension) ==
    context \o <<"_", kind, "_", timestamp, extension>>

\* self.base_directory / filename
ScreenshotDir == "logs/screenshots/"
ArtifactDir == "logs/debug_artifacts/"
PathIn(directory, filename) == <<directory>> \o filename

\* open(filepath, 'w') succeeds: a "/" in the file name makes the path run
\* through a directory that does not exist
CanOpen(filename) ==
    \A i \in DOMAIN filename : filename[i] # "/"

(***************************************************************************)
(* ScreenshotManager                                                       *)
(***************************************************************************)
\* platform.system()
Platforms == {"Linux", "Darwin", "Windows", "FreeBSD"}
\* what the native tool does: it works, or subprocess.run raises
\* CalledProcessError (the tool failed), FileNotFoundError (no such tool) or
\* another OSError (it cannot be executed, the process cannot be forked);
\* on Windows anything but "ok" is an exception of mss
NativeOutcomes == {"ok", "CalledProcessError", "FileNotFoundError", "OSError"}
\* what ImageGrab.grab() and save() do
GrabOutcomes == {"ok", "ImportError", "Exception"}

\* what is at filepath after a screenshot attempt
File(path, content) == [path |-> path, content |-> content]

\* _capture_fallback_screenshot: the grab saved, or on ImportError or any
\* other exception a diagnostic text written at the same path
_capture_fallback_screenshot(grab) ==
    IF grab = "ok" THEN "image" ELSE "placeholder"

\* _capture_windows_screenshot: mss; ImportError and any other exception fall
\* back
_capture_windows_screenshot(native, grab) ==
    IF native = "ok" THEN "image" ELSE _capture_fallback_screenshot(grab)

\* the exceptions _capture_unix_screenshot catches
UnixCaught == {"CalledProcessError", "FileNotFoundError"}

\* _capture_unix_screenshot: screencapture or scrot through subprocess.run;
\* the caught exceptions fall back, any other escapes (the value is its name)
_capture_unix_screenshot(native, grab) ==
    CASE native = "ok" -> "image"
      [] native \in UnixCaught -> _capture_fallback_screenshot(grab)
      [] OTHER -> native

\* capture_on_failure, the platform dispatch
TakeScreenshot(system, native, grab) ==
    CASE system = "Windows" -> _capture_windows_screenshot(native, grab)
      [] system \in {"Darwin", "Linux"} -> _capture_unix_screenshot(native, grab)
      [] OTHER -> _capture_fallback_screenshot(grab)

FileContents == {"image", "placeholder", "text"}

(***************************************************************************)
(* DebugHelper                                                             *)
(***************************************************************************)
ArtifactKinds == {"screenshot", "page_source", "console_logs", "system_info",
                  "error_info"}
\* the value of a key the artifacts dict does not hold
Absent == <<"absent">>
\* artifacts = {}
NoArtifacts == [k \in ArtifactKinds |-> Absent]

Flags == [save_screenshot: BOOLEAN, save_page_source: BOOLEAN,
          save_console_logs: BOOLEAN, save_system_info: BOOLEAN]
\* the defaults of capture_all and capture_debug_info
AllFlags == [save_screenshot |-> TRUE, save_page_source |-> TRUE,
             save_console_logs |-> TRUE, save_system_info |-> TRUE]

\* the capture in progress: its context, the timestamp capture_all took,
\* whether a driver was passed, the flags, and who asked for it
NoCapture == [context |-> <<>>, timestamp |-> "None", driver |-> FALSE,
              flags |-> AllFlags, ret |-> "None"]

(***************************************************************************)
(* Process start-up: the logs tree, the settings, the Chrome options       *)
(***************************************************************************)
\* "logs", base_directory of DebugHelper and of ScreenshotManager, and the
\* file of the FileHandler
LogPaths == {"logs", ArtifactDir, ScreenshotDir, "logs/automation.log"}

\* the states the logs tree can be in: nothing lies in a missing directory
Filesystems == { f \in SUBSET LogPaths : f # {} => "logs" \in f }

\* Path(base_directory).mkdir(parents=True, exist_ok=True)
mkdir(path, f) == f \cup {"logs", path}

\* Settings.BROWSER_HEADLESS and Settings.AVOID_DETECTION
Settings == [BROWSER_HEADLESS : BOOLEAN, AVOID_DETECTION : BOOLEAN]

\* options = Options(): no argument, no experimental option
NoOptions == [arguments |-> <<>>, experimental |-> {}]

(***************************************************************************)
(* Initial state: a helper constructed on a driver                         *)
(***************************************************************************)
Init ==
    /\ pc = "idle"
    /\ call = NoCall
    /\ elapsed = 0
    /\ events = <<>>
    /\ result = NoResult
    /\ cap = NoCapture
    /\ artifacts = NoArtifacts
    /\ files = {}
    /\ disk = {}
    /\ now = 0
    /\ default_timeout \in 1..MaxTimeout
    /\ fs = LogPaths
    /\ handlers = TRUE
    /\ settings = [BROWSER_HEADLESS |-> FALSE, AVOID_DETECTION |-> TRUE]
    /\ options = NoOptions

(***************************************************************************)
(* The environment: the clock advances                                     *)
(***************************************************************************)
Tick ==
    /\ now < MaxTime
    /\ now' = now + 1
    /\ UNCHANGED <<pc, call, elapsed, events, result, cap, artifacts, files, disk,
                   default_timeout, startup>>

(***************************************************************************)
(* Operations that take a locator                                          *)
(***************************************************************************)
FindOps == {"find_by_data_test_id", "find_by_aria_label",
            "find_by_visible_text", "find_by_partial_attribute"}
ActionOps == {"click_element", "type_text", "scroll_to_element",
              "insert_text_from_file"}
ConditionOps == FindOps \cup ActionOps
RelativeOp == "find_relative_to_element"
ExtractOp == "extract_links_with_js"
LocateOps == ConditionOps \cup {RelativeOp, ExtractOp}

Directions == {"to_right_of", "to_left_of", "above", "below", "near"}

\* the (By, value) pair each operation waits on
Locator(c) ==
    CASE c.op = "find_by_data_test_id" ->
            [by |-> "css selector", value |-> <<"[data-testid='">> \o c.s \o <<"']">>]
      [] c.op = "find_by_aria_label" ->
            [by |-> "xpath", value |-> <<"//*[@aria-label='">> \o c.s \o <<"']">>]
      [] c.op = "find_by_visible_text" ->
            [by |-> "xpath",
             value |-> IF c.flag THEN <<"//*[text()='">> \o c.s \o <<"']">>
                       ELSE <<"//*[contains(., '">> \o c.s \o <<"')]">>]
      [] c.op = "find_by_partial_attribute" ->
            [by |-> "css selector", value |-> <<"*[href*='">> \o c.s \o <<"']">>]
      [] c.op = ExtractOp -> [by |-> c.by, value |-> c.s]
      [] OTHER -> [by |-> "xpath", value |-> c.s]

\* str(locator)
StrOfLocator(l) == <<"('", l.by, "', '">> \o l.value \o <<"')">>

\* the locator string an ElementNotFoundError is built with
ErrorLocator(c) ==
    IF c.op = RelativeOp /\ c.phase = "target"
      THEN <<"Relative locator using base: ", "base", ", target: ">> \o c.s
              \o <<", dir: ", c.direction>>
      ELSE IF c.op = RelativeOp THEN <<"base">>
      ELSE StrOfLocator(Locator(c))

\* the keys of the details an ElementNotFoundError is built with; the base
\* lookup of find_relative_to_element gives {"step":
\* "find_base_element_for_relative"}
ErrorDetails(c) ==
    CASE c.op = RelativeOp /\ c.phase = "base" ->
            <<"step", "find_base_element_for_relative">>
      [] c.op = RelativeOp -> <<"direction", "base_locator", "target_locator">>
      [] c.op = ExtractOp -> <<"link_selector", "single_link_index">>
      [] c.op = "insert_text_from_file" -> <<"condition", "file_path">>
      [] c.op = "find_by_visible_text" -> <<"condition", "exact_match">>
      [] OTHER -> <<"condition">>

\* the context the failure handler of an operation hands to capture_debug_info
NotFoundContext(c) ==
    CASE c.op = "find_by_data_test_id" -> <<"find_by_data_test_id_">> \o c.s
      [] c.op = "find_by_aria_label" -> <<"find_by_aria_label_">> \o c.s
      [] c.op = "find_by_visible_text" -> <<"find_by_visible_text_">> \o c.s
      [] c.op = "find_by_partial_attribute" ->
            <<"find_by_partial_attr_", "href", "_">> \o c.s
      [] c.op = RelativeOp /\ c.phase = "base" -> <<"find_relative_base_timeout">>
      [] c.op = RelativeOp ->
            <<"find_relative_", c.direction, "_timeout">>
      [] c.op = "insert_text_from_file" ->
            <<"insert_text_file_element_not_found_">> \o c.s
      [] c.op = "scroll_to_element" -> <<"scroll_to_element_not_found_">> \o c.s
      [] c.op = ExtractOp -> <<"extract_links_container_not_found_">> \o c.s
      [] c.op = "click_element" -> <<"click_element_not_found_">> \o c.s
      [] OTHER -> <<"type_text_element_not_found_">> \o c.s

ActionFailedContext(c) ==
    CASE c.op = "insert_text_from_file" ->
            <<"insert_text_file_action_failed_">> \o c.s
      [] c.op = "scroll_to_element" -> <<"scroll_to_element_js_failed_">> \o c.s
      [] c.op = ExtractOp -> <<"extract_links_js_failed_">> \o c.s
      [] c.op = "click_element" -> <<"click_element_failed_">> \o c.s
      [] OTHER -> <<"type_text_failed_">> \o c.s

\* the value of the expected condition a locating call awaits
LocateMethod(c, d) ==
    CASE c.op \in ConditionOps -> condition_func(c.cond, d.target)
      [] c.op = RelativeOp /\ c.phase = "base" -> presence_of_element_located(d.base)
      [] OTHER -> presence_of_element_located(d.target)

(***************************************************************************)
(* The wait primitive                                                      *)
(***************************************************************************)
\* effective_timeout = timeout if timeout is not None else self.default_timeout
EffectiveTimeout(timeout) ==
    IF timeout # None THEN timeout ELSE default_timeout

UntilNotOps == {"wait_for_element_not_present", "wait_for_element_not_visible"}

\* the value of the expected condition a call awaits, on the live document
Method(c, d) ==
    CASE c.op \in {"wait_for_element_present", "wait_for_element_not_present"} ->
            presence_of_element_located(d.target)
      [] c.op \in {"wait_for_element_visible", "wait_for_element_not_visible"} ->
            visibility_of_element_located(d.target)
      [] c.op = "wait_for_element_clickable" -> element_to_be_clickable(d.target)
      [] c.op = "wait_for_text_present_in_element" -> text_to_be_present_in_element(d)
      [] c.op = "wait_for_url_contains" -> url_contains(d)
      [] OTHER -> LocateMethod(c, d)

\* a call enters its poll loop: Idle -> Polling
BeginWait(c, evs) ==
    /\ pc' = "polling"
    /\ call' = [c EXCEPT !.wait = "Polling"]
    /\ elapsed' = 0
    /\ events' = evs
    /\ UNCHANGED <<result, cap, artifacts, files, disk, now, default_timeout, startup>>

\* the state in which a poll of a condition-taking operation found its element
Seen(c, d) == IF c.op \in ConditionOps THEN d.target ELSE "None"

\* a call ends: its caller gets r
Finish(r, evs) ==
    /\ pc' = "done"
    /\ result' = r
    /\ events' = events \o evs
    /\ UNCHANGED <<call, elapsed, cap, artifacts, files, disk, now,
                   default_timeout, startup>>

\* the target wait of find_relative_to_element polls
\* d.find_element(*relative_locator), and relative_locator was built once, before
\* the wait, around the base_element handle the first wait returned: with the
\* base no longer in the document the poll hands the driver a stale handle
UsesStaleHandle(c, d) ==
    c.op = RelativeOp /\ c.phase = "target" /\ d.base = "absent"

\* WebDriverWait.until / until_not: evaluate on the live document, which is
\* in any state d at the instant of the poll; done when the value is truthy
\* (until) or falsy (until_not); else sleep one interval and give up once the
\* timeout has passed.  Only NoSuchElementException is ignored: the
\* StaleElementReferenceException of a stale handle leaves the wait.
Poll ==
    /\ pc = "polling"
    /\ \E d \in DocStates :
         LET value == Method(call, d)
             done == IF call.op \in UntilNotOps THEN ~value ELSE value
             over == elapsed + 1 > call.timeout
         IN IF UsesStaleHandle(call, d)
              THEN Finish(Raise("StaleElementReferenceException", "None"),
                          <<"poll_stale">>)
              ELSE /\ events' = Append(events,
                                       IF done THEN "poll_done" ELSE "poll")
                   /\ elapsed' = IF done THEN elapsed ELSE elapsed + 1
                   /\ pc' = CASE done -> "satisfied"
                              [] over -> "timed_out"
                              [] OTHER -> "polling"
                   /\ call' = [call EXCEPT !.wait = CASE done -> "Satisfied"
                                                      [] over -> "TimedOut"
                                                      [] OTHER -> "Polling",
                                            !.seen = Seen(call, d)]
                   /\ UNCHANGED <<result, cap, artifacts, files, disk, now,
                                  default_timeout, startup>>

\* a call ends before any wait began
FinishEarly(c, r, evs) ==
    /\ pc' = "done"
    /\ call' = c
    /\ result' = r
    /\ events' = evs
    /\ UNCHANGED <<elapsed, cap, artifacts, files, disk, now, default_timeout, startup>>

\* the caller takes the result; the helper keeps nothing of the call (what
\* its captures left on disk is followed under SpecCapture)
ReturnToCaller ==
    /\ pc = "done"
    /\ pc' = "idle"
    /\ call' = NoCall
    /\ elapsed' = 0
    /\ events' = <<>>
    /\ result' = NoResult
    /\ cap' = NoCapture
    /\ artifacts' = NoArtifacts
    /\ files' = {}
    /\ UNCHANGED <<disk, now, default_timeout, startup>>

(***************************************************************************)
(* Boolean-style waits                                                     *)
(***************************************************************************)
BoolOps == {"wait_for_element_present", "wait_for_element_visible",
            "wait_for_text_present_in_element", "wait_for_url_contains",
            "wait_for_element_not_present", "wait_for_element_not_visible"}

StartBool(op, xpath, timeout) ==
    /\ pc = "idle"
    /\ BeginWait([NoCall EXCEPT !.op = op, !.s = xpath, !.wait_time = timeout,
                                !.timeout = EffectiveTimeout(timeout)], <<>>)

wait_for_element_present ==
    \E xpath \in UserStrings, timeout \in WaitTimes :
        StartBool("wait_for_element_present", xpath, timeout)

wait_for_element_visible ==
    \E xpath \in UserStrings, timeout \in WaitTimes :
        StartBool("wait_for_element_visible", xpath, timeout)

wait_for_text_present_in_element ==
    \E xpath \in UserStrings, timeout \in WaitTimes :
        StartBool("wait_for_text_present_in_element", xpath, timeout)

wait_for_url_contains ==
    \E substring \in UserStrings, timeout \in WaitTimes :
        StartBool("wait_for_url_contains", substring, timeout)

wait_for_element_not_present ==
    \E xpath \in UserStrings, timeout \in WaitTimes :
        StartBool("wait_for_element_not_present", xpath, timeout)

wait_for_element_not_visible ==
    \E xpath \in UserStrings, timeout \in WaitTimes :
        StartBool("wait_for_element_not_visible", xpath, timeout)

\* a boolean wait that returns nothing when its condition is met
BoolSatisfiedNone == Return("None")
\* return True
BoolSatisfiedResult == Return("True")
\* a boolean wait that lets the TimeoutException through
BoolTimedOutRaises == Raise("TimeoutException", "None")
\* except TimeoutException: ... return False
BoolTimedOutResult == Return("False")

BoolSatisfied ==
    /\ pc = "satisfied"
    /\ call.op \in BoolOps
    /\ Finish(BoolSatisfiedResult, <<>>)

\* the caller got True and makes the same call once more, at once: a new
\* WebDriverWait is built from the same arguments
CallAgain ==
    /\ pc = "done"
    /\ call.op \in BoolOps
    /\ ~call.again
    /\ result = BoolSatisfiedResult
    /\ BeginWait([NoCall EXCEPT !.op = call.op, !.s = call.s,
                                !.wait_time = call.wait_time,
                                !.timeout = EffectiveTimeout(call.wait_time),
                                !.again = TRUE], <<>>)

\* the warning of wait_for_url_contains reads driver.current_url
BoolTimedOut ==
    /\ pc = "timed_out"
    /\ call.op \in BoolOps
    /\ Finish(BoolTimedOutResult,
              IF call.op = "wait_for_url_contains"
                THEN <<"current_url", "log_warning">> ELSE <<"log_warning">>)

(***************************************************************************)
(* wait_for_element_clickable                                              *)
(***************************************************************************)
wait_for_element_clickable ==
    \E xpath \in UserStrings, timeout \in WaitTimes :
        /\ pc = "idle"
        /\ BeginWait([NoCall EXCEPT !.op = "wait_for_element_clickable",
                         !.s = xpath, !.wait_time = timeout,
                         !.timeout = EffectiveTimeout(timeout)], <<>>)

ClickableSatisfied ==
    /\ pc = "satisfied"
    /\ call.op = "wait_for_element_clickable"
    /\ Finish(Return("element"), <<"log_info">>)

\* except TimeoutException: log the error, raise TimeoutException(error_msg);
\* the debug capture is commented out
ClickableTimedOutEvents == <<"log_error">>
\* a clickable wait that answers False as the boolean waits do
ClickableTimedOutFalse == Return("False")
ClickableTimedOutResult == Raise("TimeoutException", "None")

ClickableTimedOut ==
    /\ pc = "timed_out"
    /\ call.op = "wait_for_element_clickable"
    /\ Finish(ClickableTimedOutResult, ClickableTimedOutEvents)

(***************************************************************************)
(* _get_current_url_or_default                                             *)
(***************************************************************************)
\* the method is declared @staticmethod with a first parameter named self
IsStaticMethod == TRUE

\* positional arguments Python passes for self._get_current_url_or_default():
\* the instance is bound only when the attribute is an ordinary method
BoundArguments == IF IsStaticMethod THEN 0 ELSE 1

\* the call as every call site writes it: with no instance bound the required
\* parameter self is missing and the call raises TypeError before its body runs
_get_current_url_or_default ==
    IF BoundArguments < 1
      THEN [exc |-> "TypeError", trace |-> <<>>]
      ELSE [exc |-> "None", trace |-> <<"current_url">>]

(***************************************************************************)
(* Locating operations                                                     *)
(***************************************************************************)
\* ElementNotFoundError(element, page, locator=str(locator),
\* timeout=effective_wait_time, details) from e
ElementNotFoundError(c) ==
    [Raise("ElementNotFoundError", "TimeoutException")
        EXCEPT !.locator = ErrorLocator(c), !.timeout = c.timeout,
               !.details = ErrorDetails(c)]

\* ActionFailedError(action_type, element, page, reason, details) from e
ActionFailedError(cause) == Raise("ActionFailedError", cause)

\* condition_func = self._get_expected_condition_func(condition), after the
\* WebDriverWait object is built and before its until() is called
StartConditionOp(c) ==
    /\ pc = "idle"
    /\ IF c.cond \notin condition_map
         THEN FinishEarly(c, Raise("ValueError", "None"), <<"log_error">>)
         ELSE BeginWait(c, <<>>)

\* the condition argument left out by the caller
Omitted == "omitted"

\* the default of the condition parameter in each signature
DefaultCondition(op) ==
    IF op \in {"type_text", "scroll_to_element"} THEN "visible" ELSE "clickable"

NewCall(op, s, wait_time, condition) ==
    [NoCall EXCEPT !.op = op, !.s = s, !.wait_time = wait_time,
                   !.timeout = EffectiveTimeout(wait_time),
                   !.cond = IF condition = Omitted THEN DefaultCondition(op)
                            ELSE condition,
                   !.given = condition # Omitted]

find_by_data_test_id ==
    \E test_id \in UserStrings, wait_time \in WaitTimes,
       condition \in ConditionNames :
        StartConditionOp(NewCall("find_by_data_test_id", test_id, wait_time,
                                 condition))

find_by_aria_label ==
    \E aria_label \in UserStrings, wait_time \in WaitTimes,
       condition \in ConditionNames :
        StartConditionOp(NewCall("find_by_aria_label", aria_label, wait_time,
                                 condition))

find_by_visible_text ==
    \E text \in UserStrings, wait_time \in WaitTimes,
       condition \in ConditionNames, exact_match \in BOOLEAN :
        StartConditionOp([NewCall("find_by_visible_text", text, wait_time,
                                  condition) EXCEPT !.flag = exact_match])

find_by_partial_attribute ==
    \E attribute_value_part \in UserStrings, wait_time \in WaitTimes,
       condition \in ConditionNames :
        StartConditionOp(NewCall("find_by_partial_attribute",
                                 attribute_value_part, wait_time, condition))

click_element ==
    \E locator \in UserStrings, wait_time \in WaitTimes,
       condition \in ConditionNames :
        StartConditionOp(NewCall("click_element", locator, wait_time, condition))

type_text ==
    \E locator \in UserStrings, wait_time \in WaitTimes,
       condition \in ConditionNames \cup {Omitted}, clear_before \in BOOLEAN :
        StartConditionOp([NewCall("type_text", locator, wait_time, condition)
                            EXCEPT !.flag = clear_before])

\* the file is read first: a missing or undecodable file is logged and its
\* exception re-raised; only then is the condition name resolved
FileStates == {"readable", "missing", "undecodable"}

\* a read that reports nothing, whatever the file
FileErrorIgnored(file_path) == "None"

\* with open(file_path, 'r', encoding='utf-8') as f: text_content = f.read()
\* except FileNotFoundError / except UnicodeDecodeError: log, raise
FileError(file_path) ==
    CASE file_path = "missing" -> "FileNotFoundError"
      [] file_path = "undecodable" -> "UnicodeDecodeError"
      [] OTHER -> "None"

insert_text_from_file ==
    \E file_path \in FileStates, locator \in UserStrings,
       wait_time \in WaitTimes, condition \in ConditionNames \cup {Omitted},
       clear_before_insert \in BOOLEAN :
        LET c == [NewCall("insert_text_from_file", locator, wait_time, condition)
                    EXCEPT !.flag = clear_before_insert, !.file = file_path]
        IN /\ pc = "idle"
           /\ CASE FileError(file_path) # "None" ->
                     FinishEarly(c, Raise(FileError(file_path), "None"),
                                 <<"open", "log_error">>)
                [] c.cond \notin condition_map ->
                     FinishEarly(c, Raise("ValueError", "None"),
                                 <<"open", "log_error">>)
                [] OTHER -> BeginWait(c, <<"open">>)

\* scroll_behavior and scroll_block are validated first, then the condition
ScrollBehaviors == {"auto", "smooth"}
\* a validation that lets the alignment "middle" through
ScrollBlocksOpen == {"start", "center", "end", "nearest", "middle"}
ScrollBlocks == {"start", "center", "end", "nearest"}

scroll_to_element ==
    \E locator \in UserStrings, wait_time \in WaitTimes,
       condition \in ConditionNames, scroll_behavior \in {"auto", "instant"},
       scroll_block \in {"center", "middle"} :
        LET c == [NewCall("scroll_to_element", locator, wait_time, condition)
                    EXCEPT !.behavior = scroll_behavior, !.block = scroll_block]
        IN IF scroll_behavior \notin ScrollBehaviors
                \/ scroll_block \notin ScrollBlocks
             THEN /\ pc = "idle"
                  /\ FinishEarly(c, Raise("ValueError", "None"), <<"log_error">>)
             ELSE StartConditionOp(c)

\* container_locator: Tuple[By, str], a CSS selector or an XPath expression
ContainerLocators == { [by |-> "css selector", value |-> <<"a", " ", "b">>],
                       [by |-> "xpath", value |-> <<"/", "/", "a">>] }

\* a negative single_link_index is refused first (-2 stands for any of them)
extract_links_with_js ==
    \E container_locator \in ContainerLocators,
       wait_time \in WaitTimes, single_link_index \in {None, -2, 0, 1} :
        LET c == [NewCall(ExtractOp, container_locator.value, wait_time, "None")
                    EXCEPT !.index = single_link_index,
                           !.by = container_locator.by]
        IN /\ pc = "idle"
           /\ IF single_link_index # None /\ single_link_index < 0
                THEN FinishEarly(c, Raise("ValueError", "None"), <<>>)
                ELSE BeginWait(c, <<>>)

\* the wait for the base element begins at once; the direction is looked up
\* only after the base was found
find_relative_to_element ==
    \E target_element_locator \in UserStrings, wait_time \in WaitTimes,
       direction \in {"to_right_of", "below", "diagonal"} :
        /\ pc = "idle"
        /\ BeginWait([NewCall(RelativeOp, target_element_locator, wait_time,
                              "None")
                        EXCEPT !.direction = direction, !.phase = "base"], <<>>)

(***************************************************************************)
(* DebugHelper.capture_all, step by step                                   *)
(***************************************************************************)
\* who asked for the capture: a caller of capture_all itself, or an except
\* block of the helper through AutomationLogger.capture_debug_info
DirectCapture == "capture_all"
HandlerCaptures == {"not_found", "action_failed", "extract_failed",
                    "close_current_tab_failed", "quit_driver_failed"}

\* timestamp = datetime.now().strftime(...); artifacts = {}
BeginCapture(c, context, driver, flags, ret, evs) ==
    /\ pc' = "cap_screenshot"
    /\ call' = c
    /\ cap' = [context |-> context, timestamp |-> strftime(now),
               driver |-> driver, flags |-> flags, ret |-> ret]
    /\ artifacts' = NoArtifacts
    /\ events' = events \o evs \o <<"capture_all">>
    /\ UNCHANGED <<elapsed, result, files, disk, now, default_timeout, startup>>

\* a capture step is over: the path it gave is stored under its key; a step
\* that failed has logged a warning in its except block
Captured(kind, path, content, next, failed) ==
    /\ pc' = next
    /\ artifacts' = [artifacts EXCEPT ![kind] = path]
    /\ files' = IF path # <<>> THEN files \cup {File(path, content)} ELSE files
    /\ events' = events \o (IF failed THEN <<kind, "log_warning">>
                              ELSE <<kind>>)
    /\ UNCHANGED <<call, elapsed, result, cap, disk, now, default_timeout, startup>>

\* the flag of a capture step is off (or there is no driver)
NotCaptured(next) ==
    /\ pc' = next
    /\ UNCHANGED <<call, elapsed, events, result, cap, artifacts, files, disk, now,
                   default_timeout, startup>>

\* an exception leaves capture_all and capture_debug_info and goes up to the
\* caller; only quit_driver wraps its capture in try/except, logs a warning
\* and goes on to return current_url
CaptureRaised(e) ==
    IF cap.ret = "quit_driver_failed" THEN Return(call.s[1])
    ELSE Raise(e, "None")

\* if save_screenshot: artifacts['screenshot'] =
\*     self.screenshot_manager.capture_on_failure(context, "failure")
\* ScreenshotManager takes its own timestamp; nothing around the call catches
\* what the platform method lets through
capture_on_failure ==
    /\ pc = "cap_screenshot"
    /\ IF ~cap.flags.save_screenshot
         THEN NotCaptured("cap_page_source")
         ELSE \E system \in Platforms, native \in NativeOutcomes,
                 grab \in GrabOutcomes :
                LET content == TakeScreenshot(system, native, grab)
                    filename == ScreenshotFilename(cap.context, <<"failure">>,
                                                   strftime(now))
                IN IF content \in FileContents
                     THEN Captured("screenshot",
                                   PathIn(ScreenshotDir, filename), content,
                                   "cap_page_source", FALSE)
                     ELSE Finish(CaptureRaised(content), <<"screenshot">>)

\* what driver.page_source, driver.get_log("browser") and psutil do
PageOutcomes == {"ok", "WebDriverException"}
LogOutcomes == {"entries", "empty", "WebDriverException"}
InfoOutcomes == {"ok", "Error"}

\* _capture_page_source: the path, or "" on any exception
_capture_page_source(context, timestamp, page) ==
    LET filename == ArtifactFilename(context, "page_source", timestamp, ".html")
    IN IF page = "ok" /\ CanOpen(filename)
         THEN PathIn(ArtifactDir, filename) ELSE <<>>

\* _capture_console_logs: a file only when there are log entries; "" when
\* there are none and on any exception
_capture_console_logs(context, timestamp, logs) ==
    LET filename == ArtifactFilename(context, "console_logs", timestamp, ".log")
    IN IF logs = "entries" /\ CanOpen(filename)
         THEN PathIn(ArtifactDir, filename) ELSE <<>>

\* _capture_system_info: the path, or "" on any exception
_capture_system_info(context, timestamp, info) ==
    LET filename == ArtifactFilename(context, "system_info", timestamp, ".json")
    IN IF info = "ok" /\ CanOpen(filename)
         THEN PathIn(ArtifactDir, filename) ELSE <<>>

\* _save_error_info: no exception is caught; the value is the path, or the
\* name of the exception open() raises
_save_error_info(context, timestamp) ==
    LET filename == ArtifactFilename(context, "error_info", timestamp, ".json")
    IN IF CanOpen(filename)
         THEN PathIn(ArtifactDir, filename) ELSE <<"FileNotFoundError">>

\* if save_page_source and driver is not None
CapturePageSource ==
    /\ pc = "cap_page_source"
    /\ IF ~(cap.flags.save_page_source /\ cap.driver)
         THEN NotCaptured("cap_console_logs")
         ELSE \E page \in PageOutcomes :
                LET path == _capture_page_source(cap.context, cap.timestamp,
                                                 page)
                IN Captured("page_source", path, "text", "cap_console_logs",
                            path = <<>>)

\* if save_console_logs and driver is not None
CaptureConsoleLogs ==
    /\ pc = "cap_console_logs"
    /\ IF ~(cap.flags.save_console_logs /\ cap.driver)
         THEN NotCaptured("cap_system_info")
         ELSE \E logs \in LogOutcomes :
                LET path == _capture_console_logs(cap.context, cap.timestamp,
                                                  logs)
                IN Captured("console_logs", path, "text", "cap_system_info",
                            path = <<>> /\ logs # "empty")

\* if save_system_info
CaptureSystemInfo ==
    /\ pc = "cap_system_info"
    /\ IF ~cap.flags.save_system_info
         THEN NotCaptured("cap_error_info")
         ELSE \E info \in InfoOutcomes :
                LET path == _capture_system_info(cap.context, cap.timestamp,
                                                 info)
                IN Captured("system_info", path, "text", "cap_error_info",
                            path = <<>>)

\* artifacts['error_info'] = self._save_error_info(context, error, timestamp)
SaveErrorInfo ==
    /\ pc = "cap_error_info"
    /\ LET path == _save_error_info(cap.context, cap.timestamp)
       IN IF path = <<"FileNotFoundError">>
            THEN Finish(CaptureRaised("FileNotFoundError"), <<"error_info">>)
            ELSE Captured("error_info", path, "text", "cap_return", FALSE)

\* automation_logger.error(f"Debug artifacts captured: ..."); return artifacts
CaptureReturn ==
    /\ pc = "cap_return"
    /\ cap.ret = DirectCapture
    /\ Finish(Return("artifacts"), <<"log_error">>)

\* DebugHelper.capture_all(context, error, driver, save_...) called directly
CaptureContexts == UserStrings \cup { <<"login">> }

capture_all ==
    \E context \in CaptureContexts, driver \in BOOLEAN, flags \in Flags :
        /\ pc = "idle"
        /\ BeginCapture([NoCall EXCEPT !.op = DirectCapture], context, driver,
                        flags, DirectCapture, <<>>)

(***************************************************************************)
(* Failure handlers of the helper                                          *)
(***************************************************************************)
\* an except block that logs nothing before its capture
TimedOutSilent == <<>>
\* except TimeoutException as e, of every locating operation:
\* automation_logger.error(error_msg), then
\* automation_logger.capture_debug_info(driver=self.driver, context=...)
TimedOutEvents == <<"log_error">>

LocateTimedOut ==
    /\ pc = "timed_out"
    /\ call.op \in LocateOps
    /\ BeginCapture(call, NotFoundContext(call), TRUE, AllFlags, "not_found",
                    TimedOutEvents)

\* what the except block raises once the capture and the URL lookup are over
PendingError(c, ret) ==
    IF ret = "not_found" THEN ElementNotFoundError(c)
    ELSE ActionFailedError("WebDriverException")

\* capture_all returned to capture_debug_info, which logs the artifacts and
\* returns to the except block: current_url =
\* self._get_current_url_or_default(), then raise ... from e; the except
\* block of extract_links_with_js returns [] instead
HandlerResume ==
    /\ pc = "cap_return"
    /\ cap.ret \in HandlerCaptures
    /\ IF cap.ret = "extract_failed"
         THEN Finish(ReturnList(<<>>), <<"log_error", "log_error">>)
         ELSE IF cap.ret \in {"close_current_tab_failed", "quit_driver_failed"}
         THEN Finish(Return(call.s[1]), <<"log_error">>)
         ELSE IF _get_current_url_or_default.exc # "None"
           THEN Finish(Raise(_get_current_url_or_default.exc, "None"),
                       <<"log_error", "log_error">>)
           ELSE Finish(PendingError(call, cap.ret),
                       <<"log_error", "log_error">>
                          \o _get_current_url_or_default.trace)

(***************************************************************************)
(* After the element was located                                           *)
(***************************************************************************)
\* find_by_*: inside the try block, current_url is looked up for the info
\* record; only TimeoutException is caught there
FoundResult ==
    IF _get_current_url_or_default.exc # "None"
      THEN Raise(_get_current_url_or_default.exc, "None")
      ELSE Return("element")

FindSatisfied ==
    /\ pc = "satisfied"
    /\ \/ call.op \in FindOps
       \/ call.op = RelativeOp /\ call.phase = "target"
    /\ Finish(FoundResult,
              IF FoundResult.kind = "return"
                THEN _get_current_url_or_default.trace \o <<"log_info">>
                ELSE <<>>)

\* find_relative_to_element, base found: the direction is looked up in
\* direction_map, then a second until() waits for the relative target
RelativeBaseSatisfied ==
    /\ pc = "satisfied"
    /\ call.op = RelativeOp /\ call.phase = "base"
    /\ IF call.direction \notin Directions
         THEN Finish(Raise("ValueError", "None"), <<"log_error">>)
         ELSE /\ pc' = "polling"
              /\ call' = [call EXCEPT !.phase = "target", !.wait = "Polling"]
              /\ elapsed' = 0
              /\ UNCHANGED <<events, result, cap, artifacts, files, disk, now,
                             default_timeout, startup>>

\* a typing operation that clears the element whatever clear_before says
ActionCallsAlwaysClear(c) ==
    CASE c.op = "click_element" -> <<"click">>
      [] c.op = "scroll_to_element" -> <<"execute_script">>
      [] OTHER -> <<"clear", "send_keys">>

\* what the element is asked to do once located
ActionCalls(c) ==
    CASE c.op = "click_element" -> <<"click">>
      [] c.op = "scroll_to_element" -> <<"execute_script">>
      [] c.flag -> <<"clear", "send_keys">>
      [] OTHER -> <<"send_keys">>

\* click_element, type_text, insert_text_from_file, scroll_to_element: the
\* calls on the element go through in order (info record, return None), or the
\* k-th of them raises and the except Exception block runs
ActSatisfied ==
    /\ pc = "satisfied"
    /\ call.op \in ActionOps
    /\ \/ Finish(Return("None"), ActionCalls(call) \o <<"log_info">>)
       \/ \E k \in DOMAIN ActionCalls(call) :
            BeginCapture(call, ActionFailedContext(call), TRUE, AllFlags,
                         "action_failed",
                         SubSeq(ActionCalls(call), 1, k) \o <<"log_error">>)

\* close_current_tab and quit_driver: current_url is looked up first, outside
\* any try block, with the sentinel as default; then driver.close() or
\* driver.quit() under except Exception, which logs and captures; then
\* return current_url
CloseOrQuit(op, default, driver_call, ret) ==
    LET lookup == _get_current_url_or_default
    IN /\ pc = "idle"
       /\ \E readable \in BOOLEAN, closes \in BOOLEAN :
            LET current_url == IF readable THEN "url" ELSE default
                c == [NoCall EXCEPT !.op = op, !.s = <<current_url>>]
            IN CASE lookup.exc # "None" ->
                      FinishEarly([NoCall EXCEPT !.op = op],
                                  Raise(lookup.exc, "None"), <<>>)
                 [] closes ->
                      FinishEarly(c, Return(current_url),
                                  lookup.trace \o <<driver_call, "log_info">>)
                 [] OTHER ->
                      BeginCapture(c, <<ret>>, TRUE, AllFlags, ret,
                                   lookup.trace \o <<driver_call, "log_error">>)

close_current_tab ==
    CloseOrQuit("close_current_tab", "Unknown_Closed_Tab", "close",
                "close_current_tab_failed")

quit_driver ==
    CloseOrQuit("quit_driver", "Unknown_Before_Quit", "quit",
                "quit_driver_failed")

\* the methods class ScreenshotManager defines
ScreenshotManagerMethods ==
    {"__init__", "capture_on_failure", "capture_with_driver",
     "_sanitize_filename", "_capture_windows_screenshot",
     "_capture_unix_screenshot", "_capture_fallback_screenshot",
     "cleanup_old_screenshots"}

\* ScreenshotManager.capture_with_driver(driver, context): the file name is
\* f"{context}_{action}_{timestamp}.png", unsanitised.  driver.save_screenshot
\* writes the image (it reports a file it cannot write by returning False), is
\* missing on the driver (AttributeError) or raises.  On AttributeError
\* self._capture_system_screenshot(filepath) is called: looking up an
\* attribute the class does not define raises AttributeError in its turn
capture_with_driver ==
    \E context \in CaptureContexts,
       save_screenshot \in {"ok", "AttributeError", "WebDriverException"} :
        LET filename == ArtifactFilename(context, "screenshot", strftime(now),
                                        ".png")
            path == PathIn(ScreenshotDir, filename)
            fallback == "_capture_system_screenshot" \in ScreenshotManagerMethods
            written == \/ save_screenshot = "ok" /\ CanOpen(filename)
                       \/ save_screenshot = "AttributeError" /\ fallback
        IN /\ pc = "idle"
           /\ pc' = "done"
           /\ call' = [NoCall EXCEPT !.op = "capture_with_driver",
                                     !.s = context, !.seen = save_screenshot]
           /\ events' = <<"save_screenshot">>
           /\ files' = IF written THEN files \cup {File(path, "image")}
                       ELSE files
           /\ result' = CASE save_screenshot = "ok" -> Return("path")
                           [] save_screenshot = "AttributeError" /\ fallback ->
                                Return("path")
                           [] OTHER -> Raise(save_screenshot, "None")
           /\ UNCHANGED <<elapsed, cap, artifacts, disk, now, default_timeout,
                          startup>>

\* the link elements of one container, each by its href ("" when the matched
\* element has none)
LinkLists == { <<>>, <<"u">>, <<"", "v">>, <<"u", "v">> }

\* the containers the script finds, in document order
LinkDocs == UNION { [1..n -> LinkLists] : n \in 1..MaxContainers }

\* what execute_script does besides running the script: it returns the
\* script's list, returns something that is no list, or raises
ScriptOutcomes == {"ok", "not_list", "WebDriverException"}

\* document.querySelectorAll(arguments[0]) is handed container_locator[1]
\* whatever the By of the locator; a string starting with "/" is no selector
\* and the script throws SyntaxError
IsCssSelector(s) == s[1] # "/"

\* links.length > targetIndex: href = links[targetIndex].href;
\* if (href) allLinks.push(href)
LinkAt(links, targetIndex) ==
    IF Len(links) > targetIndex /\ links[targetIndex + 1] # ""
      THEN <<links[targetIndex + 1]>> ELSE <<>>

\* links.forEach(link => { href = link.href; if (href) allLinks.push(href) })
LinksOf(links) == SelectSeq(links, LAMBDA href : href # "")

\* containers.forEach(container => ...); return allLinks
RECURSIVE ExtractScript(_, _)
ExtractScript(containers, targetIndex) ==
    IF containers = <<>> THEN <<>>
    ELSE (IF targetIndex # None THEN LinkAt(Head(containers), targetIndex)
          ELSE LinksOf(Head(containers)))
            \o ExtractScript(Tail(containers), targetIndex)

\* a result that is no list handed to the caller as it is
NotListPassedOn == Return("None")
\* if not isinstance(extracted_links, list): warning, return []
NotListResult == ReturnList(<<>>)

\* extract_links_with_js, container present: one execute_script; a list is
\* returned as it is, anything else gives [] with a warning; an exception is
\* logged, a debug capture is taken and [] returned
ExtractSatisfied ==
    /\ pc = "satisfied"
    /\ call.op = ExtractOp
    /\ \E script \in ScriptOutcomes :
         LET c == [call EXCEPT !.script = script]
         IN CASE script = "WebDriverException" \/ ~IsCssSelector(call.s) ->
                   BeginCapture(c, ActionFailedContext(call), TRUE, AllFlags,
                                "extract_failed",
                                <<"execute_script", "log_error">>)
              [] script = "not_list" ->
                   FinishEarly(c, NotListResult,
                               events \o <<"execute_script", "log_warning">>)
              [] OTHER ->
                   \E containers \in LinkDocs :
                      FinishEarly([c EXCEPT !.doc = containers],
                                  ReturnList(ExtractScript(containers, call.index)),
                                  events \o <<"execute_script", "log_info">>)

Next ==
    \/ Tick
    \/ Poll
    \/ ReturnToCaller
    \/ wait_for_element_present
    \/ wait_for_element_visible
    \/ wait_for_text_present_in_element
    \/ wait_for_url_contains
    \/ wait_for_element_not_present
    \/ wait_for_element_not_visible
    \/ BoolSatisfied
    \/ BoolTimedOut
    \/ CallAgain
    \/ wait_for_element_clickable
    \/ ClickableSatisfied
    \/ ClickableTimedOut
    \/ find_by_data_test_id
    \/ find_by_aria_label
    \/ find_by_visible_text
    \/ find_by_partial_attribute
    \/ find_relative_to_element
    \/ click_element
    \/ type_text
    \/ insert_text_from_file
    \/ scroll_to_element
    \/ extract_links_with_js
    \/ LocateTimedOut
    \/ FindSatisfied
    \/ RelativeBaseSatisfied
    \/ ActSatisfied
    \/ ExtractSatisfied
    \/ close_current_tab
    \/ quit_driver
    \/ capture_with_driver
    \/ capture_all
    \/ capture_on_failure
    \/ CapturePageSource
    \/ CaptureConsoleLogs
    \/ CaptureSystemInfo
    \/ SaveErrorInfo
    \/ CaptureReturn
    \/ HandlerResume

Spec == Init /\ [][Next]_vars

\* WebDriverWait.until is a loop in the calling thread, which blocks in it:
\* while the wait is polling, the next poll does happen
SpecLive == Spec /\ WF_vars(Poll)

(***************************************************************************)
(* DebugHelper on its own: capture_all called again and again, the files   *)
(* of one capture still on disk when the next one runs                     *)
(***************************************************************************)
\* the files outlive the call that wrote them: open(filepath, 'w') and the
\* screenshot tools create or truncate, nothing is ever removed
LeftOnDisk(written, before) ==
    IF written # {} THEN { f.path : f \in written } ELSE before

\* the caller of capture_all takes the artifacts dict; the files stay
ReturnFromCapture ==
    /\ pc = "done"
    /\ call.op = DirectCapture
    /\ pc' = "idle"
    /\ call' = NoCall
    /\ elapsed' = 0
    /\ events' = <<>>
    /\ result' = NoResult
    /\ cap' = NoCapture
    /\ artifacts' = NoArtifacts
    /\ files' = {}
    /\ disk' = LeftOnDisk(files, disk)
    /\ UNCHANGED <<now, default_timeout, startup>>

NextCapture ==
    \/ Tick
    \/ capture_all
    \/ capture_on_failure
    \/ CapturePageSource
    \/ CaptureConsoleLogs
    \/ CaptureSystemInfo
    \/ SaveErrorInfo
    \/ CaptureReturn
    \/ ReturnFromCapture

SpecCapture == Init /\ [][NextCapture]_vars

(***************************************************************************)
(* Process start-up: importing utils.logger runs AutomationLogger(), which *)
(* builds the DebugHelper, which builds the ScreenshotManager              *)
(***************************************************************************)
InitStartup ==
    /\ pc = "import"
    /\ call = NoCall
    /\ elapsed = 0
    /\ events = <<>>
    /\ result = NoResult
    /\ cap = NoCapture
    /\ artifacts = NoArtifacts
    /\ files = {}
    /\ disk = {}
    /\ now = 0
    /\ default_timeout \in 1..MaxTimeout
    /\ fs \in Filesystems
    /\ handlers \in BOOLEAN
    /\ settings \in Settings
    /\ options = NoOptions

\* a step of the start-up that touches only pc, events and the logs tree
StartupStep(next, evs, f, h) ==
    /\ pc' = next
    /\ events' = events \o evs
    /\ fs' = f
    /\ handlers' = h
    /\ UNCHANGED <<call, elapsed, result, cap, artifacts, files, disk, now,
                   default_timeout, settings, options>>

\* _setup_handlers: the console handler is added, then the FileHandler is
\* built and added.  logging.FileHandler("logs/automation.log") opens the
\* file at once, in append mode: the file is created, its directory is not.
\* The value is what open() raises, or "None"
_setup_handlers(f) ==
    IF "logs" \in f THEN "None" ELSE "FileNotFoundError"

\* automation_logger = AutomationLogger(): the handlers are set up unless the
\* logger has some already; DebugHelper() comes only after them
AutomationLogger ==
    /\ pc = "import"
    /\ CASE handlers ->
              StartupStep("debug_helper", <<"getLogger">>, fs, handlers)
         [] _setup_handlers(fs) = "None" ->
              StartupStep("debug_helper",
                          <<"getLogger", "StreamHandler", "FileHandler">>,
                          fs \cup {"logs/automation.log"}, TRUE)
         [] OTHER ->
              /\ pc' = "failed"
              /\ events' = events \o <<"getLogger", "StreamHandler">>
              /\ result' = Raise(_setup_handlers(fs), "None")
              /\ handlers' = TRUE
              /\ UNCHANGED <<call, elapsed, cap, artifacts, files, disk, now,
                             default_timeout, fs, settings, options>>

\* DebugHelper.__init__: self.base_directory.mkdir(parents=True, exist_ok=True)
DebugHelper ==
    /\ pc = "debug_helper"
    /\ StartupStep("screenshot_manager", <<"DebugHelper">>,
                   mkdir(ArtifactDir, fs), handlers)

\* ScreenshotManager.__init__: the same for logs/screenshots
ScreenshotManager ==
    /\ pc = "screenshot_manager"
    /\ StartupStep("ready", <<"ScreenshotManager">>,
                   mkdir(ScreenshotDir, fs), handlers)

\* the import failed and is tried again: the module body runs anew, the
\* "Automation" logger of the logging module is still the same object
ImportAgain ==
    /\ pc = "failed"
    /\ pc' = "import"
    /\ result' = NoResult
    /\ UNCHANGED <<call, elapsed, events, cap, artifacts, files, disk, now,
                   default_timeout, startup>>

(***************************************************************************)
(* DriverManager.get_driver, step by step                                  *)
(***************************************************************************)
\* the arguments added whatever the settings: window size, the foundational
\* arguments, the user profile
BaseArguments ==
    <<"--window-size", "--no-sandbox", "--disable-dev-shm-usage",
      "--disable-blink-features=AutomationControlled",
      "--user-data-dir", "--profile-directory">>
\* if settings.AVOID_DETECTION
DetectionArguments ==
    <<"--disable-extensions", "--disable-plugins", "--disable-images",
      "--disable-javascript", "--disable-web-security",
      "--allow-running-insecure-content",
      "--disable-features=VizDisplayCompositor", "--user-agent">>

\* the options as they stand when webdriver.Chrome is called: the arguments,
\* "--headless=new" last if settings.BROWSER_HEADLESS, and the two
\* experimental options, added whatever the settings
AssembledOptions(s) ==
    [arguments |-> BaseArguments
                     \o (IF s.AVOID_DETECTION THEN DetectionArguments ELSE <<>>)
                     \o (IF s.BROWSER_HEADLESS THEN <<"--headless=new">>
                         ELSE <<>>),
     experimental |-> {"excludeSwitches=enable-automation",
                      "useAutomationExtension=False"}]

\* a step of get_driver: position, calls made, options, outcome
DriverStep(next, evs, o, r) ==
    /\ pc' = next
    /\ events' = evs
    /\ options' = o
    /\ result' = r
    /\ UNCHANGED <<call, elapsed, cap, artifacts, files, disk, now,
                   default_timeout, fs, handlers, settings>>

\* options = Options() ... service = Service(settings.CHROMEDRIVER_PATH)
get_driver ==
    /\ pc = "ready"
    /\ DriverStep("gd_chrome", <<"Options", "add_argument", "Service">>,
                  AssembledOptions(settings), NoResult)

\* driver = webdriver.Chrome(service=service, options=options): the session
\* starts, or the constructor raises and get_driver with it
Chrome ==
    /\ pc = "gd_chrome"
    /\ \E outcome \in {"ok", "WebDriverException"} :
         IF outcome = "ok"
           THEN DriverStep("gd_scripts", Append(events, "Chrome"), options,
                           result)
           ELSE DriverStep("gd_done", Append(events, "Chrome"), options,
                           Raise(outcome, "None"))

\* if settings.AVOID_DETECTION: driver.execute_script(...), three times: the
\* navigator properties webdriver, plugins and languages are overridden
InjectedScripts(s) ==
    IF s.AVOID_DETECTION
      THEN <<"execute_script", "execute_script", "execute_script">> ELSE <<>>

\* the scripts run in order, or the k-th raises and get_driver with it
execute_script ==
    /\ pc = "gd_scripts"
    /\ \/ DriverStep("gd_timeouts", events \o InjectedScripts(settings),
                     options, result)
       \/ \E k \in DOMAIN InjectedScripts(settings) :
            DriverStep("gd_done",
                       events \o SubSeq(InjectedScripts(settings), 1, k),
                       options, Raise("WebDriverException", "None"))

\* a get_driver that returns the driver with neither timeout set
TimeoutCallsNone == <<>>
\* driver.implicitly_wait(settings.IMPLICIT_WAIT);
\* driver.set_page_load_timeout(settings.PAGE_LOAD_TIMEOUT)
TimeoutCalls == <<"implicitly_wait", "set_page_load_timeout">>

\* the two timeouts are set and the driver is returned
set_timeouts ==
    /\ pc = "gd_timeouts"
    /\ DriverStep("gd_done", events \o TimeoutCalls, options,
                  Return("driver"))

\* the caller of get_driver has its driver, or the exception
DriverTaken ==
    /\ pc = "gd_done"
    /\ DriverStep("ready", <<>>, NoOptions, NoResult)

NextStartup ==
    \/ AutomationLogger
    \/ DebugHelper
    \/ ScreenshotManager
    \/ ImportAgain
    \/ get_driver
    \/ Chrome
    \/ execute_script
    \/ set_timeouts
    \/ DriverTaken

SpecStartup == InitStartup /\ [][NextStartup]_vars

(***************************************************************************)
(* find_by_visible_text: the XPath it builds, evaluated on one element     *)
(***************************************************************************)
\* an element is its tag and its child nodes in document order, each a text
\* node or a child element with the text inside it; texts are sequences of
\* tokens, the apostrophe a token of its own
Elements ==
    [tag : {"button", "a"},
     nodes : { <<[kind |-> "text", s |-> <<"Sub", "mit">>]>>,
               <<[kind |-> "text", s |-> <<"Sub">>]>>,
               <<[kind |-> "element", s |-> <<"Sub", "mit">>]>>,
               <<[kind |-> "text", s |-> <<"Sub">>],
                 [kind |-> "element", s |-> <<"mit">>]>>,
               <<[kind |-> "text", s |-> <<"it", "'", "s">>]>> }]

\* f"//{tag}[text()='{text}']" or f"//{tag}[contains(., '{text}')]": the text
\* is put between the apostrophes as it is
xpath_expression(tag, text, exact_match) ==
    IF exact_match
      THEN <<"//", tag, "[", "text()=", "'">> \o text \o <<"'", "]">>
      ELSE <<"//", tag, "[", "contains(.,", "'">> \o text \o <<"'", ")", "]">>

\* XPath contains(): the second string occurs in the first
Contains(s, sub) ==
    \E i \in 1..(Len(s) - Len(sub) + 1) : SubSeq(s, i, i + Len(sub) - 1) = sub

\* the string-value of a node sequence: the text of the node and of all its
\* descendants, in document order
RECURSIVE StringValue(_)
StringValue(nodes) ==
    IF nodes = <<>> THEN <<>> ELSE Head(nodes).s \o StringValue(Tail(nodes))

\* the browser evaluates the expression on the element: the string literal
\* runs from the opening apostrophe to the next one, and what follows it must
\* close the predicate, or the expression is no XPath; text()='x' holds when
\* some text node child equals x, contains(., 'x') when the string-value
\* contains x
find_element(expression, e) ==
    LET rest == SubSeq(expression, 6, Len(expression))
        close == CHOOSE i \in DOMAIN rest : rest[i] = "'"
                    /\ \A j \in 1..(i - 1) : rest[j] # "'"
        literal == SubSeq(rest, 1, close - 1)
        tail == SubSeq(rest, close + 1, Len(rest))
        exact == expression[4] = "text()="
        holds == IF exact
                   THEN \E n \in DOMAIN e.nodes :
                           e.nodes[n].kind = "text" /\ e.nodes[n].s = literal
                   ELSE Contains(StringValue(e.nodes), literal)
    IN CASE tail # (IF exact THEN <<"]">> ELSE <<")", "]">>) ->
               Raise("InvalidSelectorException", "None")
         [] expression[2] \in {"*", e.tag} /\ holds -> Return("element")
         [] OTHER -> Raise("NoSuchElementException", "None")

\* a call of find_by_visible_text about to poll a document of one element
InitText ==
    /\ pc = "xpath"
    /\ \E text \in { <<"Sub">>, <<"Sub", "mit">>, <<"it", "'", "s">> },
          tag \in {"*", "button"}, exact_match \in BOOLEAN, e \in Elements :
         call = [NoCall EXCEPT !.op = "find_by_visible_text", !.s = text,
                               !.tag = tag, !.flag = exact_match, !.doc = e]
    /\ elapsed = 0
    /\ events = <<>>
    /\ result = NoResult
    /\ cap = NoCapture
    /\ artifacts = NoArtifacts
    /\ files = {}
    /\ disk = {}
    /\ now = 0
    /\ default_timeout \in 1..MaxTimeout
    /\ fs = LogPaths
    /\ handlers = TRUE
    /\ settings = [BROWSER_HEADLESS |-> FALSE, AVOID_DETECTION |-> TRUE]
    /\ options = NoOptions

\* one poll of temp_wait.until(condition_func(locator)): the locator is
\* (By.XPATH, xpath_expression)
PollText ==
    /\ pc = "xpath"
    /\ pc' = "evaluated"
    /\ result' = find_element(xpath_expression(call.tag, call.s, call.flag),
                              call.doc)
    /\ events' = <<"find_element">>
    /\ UNCHANGED <<call, elapsed, cap, artifacts, files, disk, now,
                   default_timeout, startup>>

SpecText == InitText /\ [][PollText]_vars

(***************************************************************************)
(* Properties                                                              *)
(***************************************************************************)
Range(s) == {s[i] : i \in DOMAIN s}

\* the call in progress is over and not yet handed back
Done == pc = "done"
\* a poll saw the awaited condition met
Observed == "poll_done" \in Range(events)
\* the effective timeout of the call, from its arguments
Effective == IF call.wait_time # None THEN call.wait_time ELSE default_timeout
\* an error record, then at once the start of a debug capture, both after
\* the last poll
LoggedThenCaptured ==
    \E i \in 1..(Len(events) - 1) :
        /\ events[i] = "log_error"
        /\ events[i + 1] = "capture_all"
        /\ \A k \in i..Len(events) : events[k] \notin {"poll", "poll_done"}

ValidConditions == {"clickable", "visible", "present"}
UnsafeChars == {" ", "/", "\\", "<", ">", ":", "\"", "|", "?", "*"}

\* C1: each locate-by-purpose operation (find_by_data_test_id,
\* find_by_aria_label, find_by_visible_text, find_by_partial_attribute,
\* find_relative_to_element), called with a valid condition, returns the
\* ready element and raises nothing when the readiness condition became true
\* within the effective timeout.
C1_FoundReturnsElement ==
    ( /\ Done
      /\ call.op \in FindOps \cup {RelativeOp}
      /\ call.op = RelativeOp => call.phase = "target"
      /\ call.wait = "Satisfied" )
    => result = Return("element")

\* C2: for every element-returning operation, when the awaited condition
\* never became true within the effective timeout, the exception reaching the
\* caller is ElementNotFoundError carrying str(locator) and that timeout.
C2_TimeoutRaisesElementNotFound ==
    ( /\ Done
      /\ call.op \in ConditionOps \cup {ExtractOp}
      /\ call.wait = "TimedOut" )
    => /\ result.kind = "raise"
       /\ result.exc = "ElementNotFoundError"
       /\ result.locator = StrOfLocator(Locator(call))
       /\ result.timeout = Effective

\* C3: every boolean-style wait returns False, raising nothing, when the
\* awaited condition never became true during the effective timeout (and the
\* timeout has then passed), and returns True when it became true within it.
C3_BooleanWaitsNeverRaise ==
    (Done /\ call.op \in BoolOps)
    => /\ result.kind = "return"
       /\ Observed => result.val = "True"
       /\ ~Observed => result.val = "False" /\ elapsed > Effective

C3_Witness ==
    /\ Done
    /\ call.op = "wait_for_url_contains"
    /\ ~Observed
    /\ result.val = "False"

\* C4: wait_for_element_clickable returns the element when it became
\* clickable within the effective timeout and raises TimeoutException, no
\* False and no other error, when it did not.
C4_ClickableRaisesTimeout ==
    (Done /\ call.op = "wait_for_element_clickable")
    => /\ Observed => result = Return("element")
       /\ ~Observed => /\ result = Raise("TimeoutException", "None")
                       /\ elapsed > Effective

C4_Witness ==
    /\ Done
    /\ call.op = "wait_for_element_clickable"
    /\ ~Observed
    /\ result.exc = "TimeoutException"

\* no poll of the document and no other call on the driver was made
NoDriverActivity == Range(events) \subseteq {"open", "log_error"}

C7_ClickErrorsAreDistinct ==
    (Done /\ call.op = "click_element" /\ result.kind = "raise")
    => /\ call.wait = "Satisfied"
            => result.exc = "ActionFailedError" /\ result.cause # "None"
       /\ call.wait = "TimedOut" => result.exc = "ElementNotFoundError"

\* C8: DebugHelper.capture_all never raises to its caller, whatever the
\* context and whichever captures fail, and the mapping it returns always
\* has an error_info entry.
C8_CaptureAllNeverRaises ==
    (Done /\ call.op = DirectCapture)
    => /\ result.kind = "return"
       /\ artifacts["error_info"] # Absent

\* the capture of a kind is asked for
Enabled(kind) ==
    CASE kind = "screenshot" -> cap.flags.save_screenshot
      [] kind = "page_source" -> cap.flags.save_page_source /\ cap.driver
      [] kind = "console_logs" -> cap.flags.save_console_logs /\ cap.driver
      [] kind = "system_info" -> cap.flags.save_system_info
      [] OTHER -> TRUE

\* C9: in capture_all each enabled capture is isolated: whichever of
\* screenshot, page_source, console_logs and system_info fails, its entry is
\* the empty string or a placeholder path and every later kind is still
\* attempted.
C9_CapturesAreIsolated ==
    (Done /\ call.op = DirectCapture)
    => \A kind \in {"screenshot", "page_source", "console_logs", "system_info"} :
          Enabled(kind) => /\ kind \in Range(events)
                           /\ artifacts[kind] # Absent

\* C10: every artifact file a debug capture writes has a name built from the
\* sanitized context, holding no unsafe character (space / \ < > : " | ? *)
\* even when the caller's context holds some.
C10_ArtifactNamesAreSafe ==
    \A f \in files :
        \A i \in 2..Len(f.path) : f.path[i] \notin UnsafeChars

\* a poll of the document was made
Polled == Range(events) \cap {"poll", "poll_done"} # {}

\* C11: find_relative_to_element called with a direction outside to_right_of,
\* to_left_of, above, below, near raises ValueError at once, before the wait
\* for the base element or any other poll begins, whether or not the base
\* element exists.
C11_InvalidDirectionRaisesBeforeWait ==
    (call.op = RelativeOp /\ call.direction \notin Directions)
    => /\ Done
       /\ result = Raise("ValueError", "None")
       /\ ~Polled

\* C12: scroll_to_element called with a scroll_behavior outside auto, smooth
\* or a scroll_block outside start, center, end, nearest raises ValueError
\* before any wait on the element begins and before any script is executed.
C12_InvalidScrollOptionsRaiseBeforeWait ==
    ( /\ call.op = "scroll_to_element"
      /\ \/ call.behavior \notin {"auto", "smooth"}
         \/ call.block \notin {"start", "center", "end", "nearest"} )
    => /\ Done
       /\ result = Raise("ValueError", "None")
       /\ ~Polled
       /\ "execute_script" \notin Range(events)

C12_Witness ==
    /\ Done
    /\ call.op = "scroll_to_element"
    /\ call.behavior = "auto"
    /\ call.block = "middle"
    /\ call.cond \in ValidConditions
    /\ result.exc = "ValueError"
    /\ events = <<"log_error">>

\* C13: insert_text_from_file given a path that does not exist raises
\* FileNotFoundError, and given a file that cannot be decoded raises
\* UnicodeDecodeError, in both cases before any wait for or interaction with
\* the target element: no driver call occurs.
C13_FileErrorsBeforeAnyDriverCall ==
    (call.op = "insert_text_from_file" /\ call.file # "readable")
    => /\ Done
       /\ call.file = "missing" => result = Raise("FileNotFoundError", "None")
       /\ call.file = "undecodable"
            => result = Raise("UnicodeDecodeError", "None")
       /\ Range(events) \subseteq {"open", "log_error"}

C13_Witness ==
    /\ Done
    /\ call.op = "insert_text_from_file"
    /\ call.file = "undecodable"
    /\ call.cond = "clickable"
    /\ result.exc = "UnicodeDecodeError"

\* the calls that reached the element, in order
ElementCalls == SelectSeq(events, LAMBDA ev : ev \in {"clear", "send_keys"})

\* C14: for a readable file, insert_text_from_file behaves as type_text with
\* the file's content and the same defaults: with no condition given, a poll
\* ends the wait exactly when type_text's default condition holds of the
\* element, and the same sequence of clear / send_keys calls reaches it.
C14_InsertBehavesAsTypeText ==
    ( /\ call.op = "insert_text_from_file"
      /\ call.file = "readable"
      /\ ~call.given
      /\ call.seen # "None" )
    => /\ call.wait = "Satisfied"
            <=> condition_func(DefaultCondition("type_text"), call.seen)
       /\ (Done /\ result = Return("None"))
            => ElementCalls = IF call.flag THEN <<"clear", "send_keys">>
                              ELSE <<"send_keys">>

\* C15: in find_relative_to_element, a base locator not found within the
\* timeout gives the caller ElementNotFoundError tagged with the step
\* find_base_element_for_relative, and a target not found after the base was
\* found gives ElementNotFoundError whose details carry direction, base
\* locator and target locator: the two cases can be told apart.
C15_RelativeFailuresAreTagged ==
    (Done /\ call.op = RelativeOp /\ call.wait = "TimedOut")
    => /\ result.exc = "ElementNotFoundError"
       /\ call.phase = "base"
            => result.details = <<"step", "find_base_element_for_relative">>
       /\ call.phase = "target"
            => result.details = <<"direction", "base_locator", "target_locator">>

\* what one container contributes: with an ordinal index the target of its
\* link at that position, when it has more links than the index; with none,
\* the targets of all its links
Contribution(links, i) ==
    IF i = None
      THEN SelectSeq(links, LAMBDA href : href # "")
      ELSE IF Len(links) > i /\ links[i + 1] # "" THEN <<links[i + 1]>>
      ELSE <<>>

\* the contributions of the containers, in document order
RECURSIVE ExpectedLinks(_, _)
ExpectedLinks(containers, i) ==
    IF Len(containers) = 0 THEN <<>>
    ELSE ExpectedLinks(SubSeq(containers, 1, Len(containers) - 1), i)
            \o Contribution(containers[Len(containers)], i)

\* C16: extract_links_with_js, its container located and the driver running
\* the script, returns without raising: with ordinal index i, for each
\* container in document order the link target at position i when the
\* container has more than i matching links and nothing for it otherwise;
\* with no index, all link targets of all containers in document order.
C16_ExtractReturnsLinksInOrder ==
    ( /\ Done
      /\ call.op = ExtractOp
      /\ call.wait = "Satisfied"
      /\ call.script = "ok" )
    => /\ result.kind = "return"
       /\ result.links = ExpectedLinks(call.doc, call.index)

\* the execute_script calls of the call
ScriptCalls == SelectSeq(events, LAMBDA ev : ev = "execute_script")

\* C17: in extract_links_with_js, once a container was located, a script
\* result that is not a list gives an empty list with a logged warning and no
\* exception; the extraction is a single execute_script call.
C17_NonListGivesEmptyList ==
    (Done /\ call.op = ExtractOp)
    => /\ (call.script = "not_list" /\ IsCssSelector(call.s))
            => /\ result.kind = "return"
               /\ result.val = "list"
               /\ result.links = <<>>
               /\ events[Len(events)] = "log_warning"
               /\ "capture_all" \notin Range(events)
       /\ Len(ScriptCalls) = IF call.wait = "Satisfied" THEN 1 ELSE 0

C17_Witness ==
    /\ Done
    /\ call.op = ExtractOp
    /\ call.script = "not_list"
    /\ call.by = "css selector"
    /\ result.links = <<>>
    /\ "log_warning" \in Range(events)

\* C18: ScreenshotManager.capture_on_failure always returns a path at which
\* a file exists afterwards, a placeholder text file when the platform
\* mechanism and every fallback failed, and no exception of a failed
\* screenshot mechanism reaches the caller.
C18_ScreenshotAlwaysLeavesFile ==
    "screenshot" \in Range(events)
    => /\ artifacts["screenshot"] # Absent
       /\ \E f \in files : f.path = artifacts["screenshot"]
       /\ result.exc \notin NativeOutcomes \cup GrabOutcomes

\* C19: no wait keeps an element handle obtained in one poll and uses it in
\* a later poll: every poll re-queries the document by locator, so an
\* element replaced or detached between polls never makes a wait act on a
\* stale handle, the target wait of find_relative_to_element included.
C19_NoStaleHandleAcrossPolls ==
    /\ "poll_stale" \notin Range(events)
    /\ result.exc # "StaleElementReferenceException"

\* C20: two distinct debug captures write distinct files: no file the
\* capture in progress has written lies at the path where an earlier capture
\* left its file, two captures with the same context in the same second
\* included.
C20_CapturesWriteDistinctFiles ==
    \A f \in files : f.path \notin disk

\* C21: started on a filesystem without the logs directory, the start-up
\* (logging facade, debug helper, screenshot manager) never fails for want of
\* a parent directory and, once through, has created logs/debug_artifacts,
\* logs/screenshots and logs/automation.log.
C21_StartupCreatesLogsTree ==
    [][/\ (pc = "import" /\ "logs" \notin fs) =>
            (pc' = "debug_helper" /\ "logs/automation.log" \in fs')
       /\ pc' = "ready" => {"logs", ArtifactDir, ScreenshotDir} \subseteq fs'
      ]_vars

\* the positions of the calls of one name among the calls made so far
Calls(name) == { i \in DOMAIN events : events[i] = name }
\* every call of the first name comes before every call of the second
Before(first, second) ==
    \A i \in Calls(first), j \in Calls(second) : i < j

\* C24: get_driver works in a fixed order: the options are complete before
\* the driver is constructed, the identity scripts run only after the
\* construction, the two timeouts are set after the scripts and before the
\* driver is returned, and one call constructs exactly one driver, without a
\* second attempt.
C24_GetDriverStepsInOrder ==
    pc \in {"gd_chrome", "gd_scripts", "gd_timeouts", "gd_done"} =>
        /\ Cardinality(Calls("Chrome")) <= 1
        /\ Before("Options", "Chrome") /\ Before("add_argument", "Chrome")
        /\ Calls("Chrome") # {} => options = AssembledOptions(settings)
        /\ Calls("execute_script") # {} => Calls("Chrome") # {}
        /\ Before("Chrome", "execute_script")
        /\ Before("execute_script", "implicitly_wait")
        /\ Before("implicitly_wait", "set_page_load_timeout")
        /\ result.kind = "return" =>
             /\ Cardinality(Calls("Chrome")) = 1
             /\ Cardinality(Calls("execute_script"))
                  = Len(InjectedScripts(settings))
             /\ Calls("implicitly_wait") # {}
             /\ Calls("set_page_load_timeout") # {}
             /\ Before("Chrome", "implicitly_wait")

\* a driver is returned after the scripts were injected
C24_Witness ==
    /\ pc = "gd_done"
    /\ result.kind = "return"
    /\ settings.AVOID_DETECTION
    /\ Calls("execute_script") # {}

\* the flags that hide the automation: the argument and the experimental
\* option the browser is always started with, and those of the
\* AVOID_DETECTION block
FingerprintArguments ==
    {"--disable-blink-features=AutomationControlled"}
        \cup Range(DetectionArguments)
FingerprintExperimental == {"excludeSwitches=enable-automation"}

\* C25: the anti-fingerprint flags follow the toggle: with AVOID_DETECTION
\* false the browser is constructed with none of them and no identity script
\* runs; with AVOID_DETECTION true all of them are applied.
C25_FingerprintFlagsFollowToggle ==
    Calls("Chrome") # {} =>
        IF settings.AVOID_DETECTION
          THEN /\ FingerprintArguments \subseteq Range(options.arguments)
               /\ FingerprintExperimental \subseteq options.experimental
               /\ result.kind = "return" =>
                    Cardinality(Calls("execute_script")) = 3
          ELSE /\ FingerprintArguments \cap Range(options.arguments) = {}
               /\ FingerprintExperimental \cap options.experimental = {}
               /\ Calls("execute_script") = {}

\* C27: close_current_tab and quit_driver never raise: each returns the URL
\* read before closing, or its sentinel when the URL cannot be read, also
\* when the close or quit call itself fails.
C27_CloseAndQuitNeverRaise ==
    (Done /\ call.op \in {"close_current_tab", "quit_driver"}) =>
        /\ result.kind = "return"
        /\ result.val \in {"url", "Unknown_Closed_Tab", "Unknown_Before_Quit"}

\* C28: capture_with_driver falls back when the driver has no
\* save_screenshot: on that AttributeError a system screenshot is taken and
\* the method returns the file path without raising.
C28_DriverScreenshotFallsBack ==
    (Done /\ call.op = "capture_with_driver" /\ call.seen = "AttributeError") =>
        /\ result.kind = "return"
        /\ files # {}

\* C29: type_text waits for visibility when no condition is given; once the
\* element is located, clear is called exactly when clear_before is true and
\* then before send_keys, send_keys is called at most once and exactly once
\* when the call returns; after a timeout neither is called.
C29_TypeTextClearsThenSends ==
    (Done /\ call.op = "type_text") =>
        /\ (~call.given /\ Observed) =>
              visibility_of_element_located(call.seen)
        /\ call.wait = "Satisfied" =>
              /\ Cardinality(Calls("clear")) = (IF call.flag THEN 1 ELSE 0)
              /\ Before("clear", "send_keys")
              /\ Cardinality(Calls("send_keys")) <= 1
              /\ result.kind = "return" => Cardinality(Calls("send_keys")) = 1
        /\ call.wait # "Satisfied" =>
              Calls("clear") \cup Calls("send_keys") = {}

\* a type_text without condition that cleared the field and typed
C29_Witness ==
    /\ Done
    /\ call.op = "type_text"
    /\ ~call.given
    /\ call.flag
    /\ result.kind = "return"
    /\ Calls("send_keys") # {}

\* the capture step of a kind ended in its except block
CaptureFailed(kind) ==
    \E i \in Calls(kind) : i < Len(events) /\ events[i + 1] = "log_warning"

\* C30: in the mapping capture_all returns, a kind maps to the empty string
\* only if its capture failed (a console-log capture on an empty browser log
\* has not failed), and page_source and console_logs are present exactly when
\* their flag is set and a driver is supplied.
C30_EmptyPathMeansFailure ==
    (Done /\ call.op = DirectCapture /\ result.kind = "return") =>
        /\ \A kind \in ArtifactKinds :
              artifacts[kind] = <<>> => CaptureFailed(kind)
        /\ artifacts["page_source"] # Absent
              <=> (cap.flags.save_page_source /\ cap.driver)
        /\ artifacts["console_logs"] # Absent
              <=> (cap.flags.save_console_logs /\ cap.driver)

\* the call in progress is a boolean wait whose first poll found its
\* condition met
AlreadySatisfied ==
    call.op \in BoolOps /\ events = <<"poll_done">>

\* C22: a boolean wait called on a condition that is already met returns
\* True, the first time and when called again at once, and on the way it
\* starts no debug capture, writes no file and changes nothing the helper
\* keeps.
C22_BooleanWaitsAreIdempotent ==
    [][AlreadySatisfied' =>
          /\ pc' = "done" => result' = Return("True")
          /\ cap' = NoCapture /\ artifacts' = NoArtifacts /\ files' = {}
          /\ UNCHANGED <<disk, default_timeout, startup>>
      ]_vars

\* the second of two calls in succession returned True as the first had
C22_Witness ==
    /\ Done
    /\ call.again
    /\ AlreadySatisfied
    /\ result = Return("True")

\* C23: every wait leaves the Polling state, and leaves it as Satisfied or
\* as TimedOut; once it is either, it does not poll again; and a later call
\* starts its poll loop afresh, with nothing slept and nothing seen.
C23_WaitsRunToCompletion ==
    /\ (pc = "polling") ~> (pc # "polling")
    /\ [][/\ (pc = "polling" /\ pc' # "polling") =>
               call'.wait \in {"Satisfied", "TimedOut"}
          /\ (pc \in {"satisfied", "timed_out"} /\ pc' = "polling") =>
               (call.op = RelativeOp /\ call.phase # call'.phase)
          /\ (pc \in {"idle", "done"} /\ pc' = "polling") =>
               /\ elapsed' = 0
               /\ call'.wait = "Polling" /\ call'.seen = "None"
               /\ Range(events') \cap {"poll", "poll_done"} = {}
         ]_vars

\* the element has a text node child equal to the search string
DirectTextEquals ==
    \E n \in DOMAIN call.doc.nodes :
        call.doc.nodes[n].kind = "text" /\ call.doc.nodes[n].s = call.s
\* the element is among those the tag of the call selects
TagSelected == call.tag \in {"*", call.doc.tag}

\* C26: with exact_match the element is matched only when its direct text
\* equals the search string ('Submit' is not matched by 'Sub'); without
\* exact_match it is matched whenever its text, descendants included,
\* contains the search string ('Submit' is matched by 'Sub').
C26_VisibleTextMatching ==
    pc = "evaluated" =>
        IF call.flag
          THEN result.kind = "return" => DirectTextEquals
          ELSE (TagSelected /\ Contains(StringValue(call.doc.nodes), call.s))
                  => result = Return("element")

====
